---- MODULE Spec2Model ----
(***************************************************************************)
(* Model of the Trace span-stack manager of src/src/trace.ts.              *)
(*                                                                         *)
(* The tracing SDK (Tracer, Span) is an external collaborator.  A span is  *)
(* modelled by what Trace asks of it: the parent it was created with, the  *)
(* last value written for each attribute key, and whether its SDK end()    *)
(* has been called.  Spans are numbered 1, 2, ... in creation order, so    *)
(* the number of a span is its identity (the !== of endSpan).              *)
(***************************************************************************)
EXTENDS Integers, Sequences, FiniteSets, TLC

\* Bound: the number of spans one Trace creates.
MaxSpans == 3

\* Bound: the number of spans created when the controllers are exercised.
MaxControllerSpans == 2

\* Bound: the number of changes a caller makes to one returned array.
MaxEdits == 1

\* undefined / absent
None == "none"
\* "no span": the undefined parent of a root span
NoSpan == 0

SpanIds == 1..MaxSpans

\* SpanNameKey of the README example, and the third name of the scenario.
SpanNames == {"api_call", "connect_db", "cache_lookup"}

\* Attribute keys the embedder allows (AttributeTypes).
Keys == {"user_id"}

\* Attribute values.
Values == {"42", "43"}

\* The diagnostic attribute written by endSpan.
StatusKey == "span_status"
ErrorEmptyStack == "error_empty_stack"
ErrorNotTop == "error_not_top"

AllKeys == Keys \cup {StatusKey}

\* The optional propagation context handed to startSpan.
Contexts == {None, "ctx"}

\* The optional initial attributes handed to startSpan (None: key absent).
AttributeSets == [Keys -> Values \cup {None}]

VARIABLES
    spanStack,         \* Trace.spanStack: sequence of span ids
    commonAttributes,  \* Trace.commonAttributes: Keys -> value or None
    nextSpan,          \* id of the next span the tracer creates
    spanParent,        \* SDK: the parent option each span was created with
    spanAttrs,         \* SDK: last value written per key on each span
    ended,             \* SDK: span.end() has been called
    lastOp,            \* history: the operation that led to this state
    sdkLog,            \* history: SDK calls made by that operation, in order
    prevStack,         \* history: spanStack before that operation
    prevCommon,        \* history: commonAttributes before that operation
    popped,            \* history: spans whose end call changed the stack
    nested,            \* history: so far N starts, then ends in reverse order
    scenarioStep,      \* history: steps of the scenario matched so far, or -1
    snapshot,          \* caller: the array the last getSpanStack() returned
    wroteCommon        \* history: a controller wrote a key of commonAttributes

vars == <<spanStack, commonAttributes, nextSpan, spanParent, spanAttrs, ended,
          lastOp, sdkLog, prevStack, prevCommon, popped, nested, scenarioStep,
          snapshot, wroteCommon>>

\* What every operation records of the state it started from.
Remember ==
    /\ prevStack' = spanStack
    /\ prevCommon' = commonAttributes

----------------------------------------------------------------------------
\* Records of the history variables.

Op(kind, span, name, attributes, context, key, value) ==
    [kind |-> kind, span |-> span, name |-> name, attributes |-> attributes,
     context |-> context, key |-> key, value |-> value]

NoAttributes == [k \in Keys |-> None]

StartOp(span, name, attributes, context) ==
    Op("startSpan", span, name, attributes, context, None, None)

AddCommonOp(key, value) ==
    Op("addCommonAttribute", NoSpan, None, NoAttributes, None, key, value)

EndOp(span) ==
    Op("end", span, None, NoAttributes, None, None, None)

Call(call, span, key, value) ==
    [call |-> call, span |-> span, key |-> key, value |-> value]

\* The scenario of the specification (section 8), as operations.
Scenario ==
    << StartOp(1, "api_call", NoAttributes, None),
       StartOp(2, "connect_db", NoAttributes, None),
       AddCommonOp("user_id", "42"),
       EndOp(2),
       StartOp(3, "cache_lookup", NoAttributes, None),
       EndOp(1),
       EndOp(3) >>

ScenarioAdvance(step, op) ==
    IF step >= 0 /\ step < Len(Scenario) /\ op = Scenario[step + 1]
    THEN step + 1
    ELSE -1

Created == 1..(nextSpan - 1)

EndedSpans == {s \in Created : ended[s]}

----------------------------------------------------------------------------
\* Helpers of the operations.

\* Variant of StackParent: the parent is read from the bottom of the stack.
StackParent_First(stack) ==
    IF Len(stack) > 0 THEN stack[1] ELSE NoSpan

\* startSpan, line 49: the parent is the last element of the stack, if any.
StackParent(stack) ==
    IF Len(stack) > 0 THEN stack[Len(stack)] ELSE NoSpan

\* tracer.startSpan with SpanOptions.attributes: the span's first attributes.
InitialAttrs(attributes) ==
    [k \in AllKeys |-> IF k \in Keys THEN attributes[k] ELSE None]

\* Variant of SetAttributes: a key the span already carries is not rewritten.
SetAttributes_KeepExisting(attrs, map) ==
    [k \in AllKeys |->
        IF k \in DOMAIN map /\ map[k] # None /\ attrs[k] = None
        THEN map[k] ELSE attrs[k]]

\* span.setAttributes(map): every key present in the map is written.
SetAttributes(attrs, map) ==
    [k \in AllKeys |->
        IF k \in DOMAIN map /\ map[k] # None THEN map[k] ELSE attrs[k]]

\* span.setAttribute(key, value)
SetAttribute(attrs, key, value) ==
    [attrs EXCEPT ![key] = value]

\* Variant of CommonTargets: only the top of the stack is visited.
CommonTargets_TopOnly(stack) ==
    IF Len(stack) > 0 THEN << stack[Len(stack)] >> ELSE << >>

\* addCommonAttribute, line 31: the spans the loop visits, in order.
CommonTargets(stack) ==
    stack

\* Variant of EndTag: the empty-stack test is missing, so the top of an empty
\* stack (undefined) differs from the span.
EndTag_NoEmptyCheck(stack, span) ==
    IF Len(stack) = 0 THEN ErrorNotTop
    ELSE IF stack[Len(stack)] # span THEN ErrorNotTop
    ELSE None

\* endSpan, lines 100-104: the tag the call writes, None in the normal case.
EndTag(stack, span) ==
    IF Len(stack) = 0 THEN ErrorEmptyStack
    ELSE IF stack[Len(stack)] # span THEN ErrorNotTop
    ELSE None

\* Variant of EndCalls: the span is ended only in the normal case.
EndCalls_NoEndOnError(span, tag) ==
    IF tag # None
    THEN << Call("setAttribute", span, StatusKey, tag) >>
    ELSE << Call("end", span, None, None) >>

\* endSpan, lines 100-107: the calls made on the span, in order.
EndCalls(span, tag) ==
    (IF tag # None
     THEN << Call("setAttribute", span, StatusKey, tag) >>
     ELSE << >>)
    \o << Call("end", span, None, None) >>

\* Variant of StoreCommon: a key that is already stored keeps its value.
StoreCommon_KeepFirst(common, key, value) ==
    IF common[key] # None THEN common ELSE [common EXCEPT ![key] = value]

\* addCommonAttribute, line 34: the map after the assignment.
StoreCommon(common, key, value) ==
    [common EXCEPT ![key] = value]

\* Variant of EndStack: the top check is missing, any end pops.
EndStack_PopAny(stack, span) ==
    IF Len(stack) = 0 THEN stack
    ELSE SubSeq(stack, 1, Len(stack) - 1)

\* Variant of EndStack: the slice drops the bottom entry, not the top one.
EndStack_DropFirst(stack, span) ==
    IF Len(stack) = 0 THEN stack
    ELSE IF stack[Len(stack)] # span THEN stack
    ELSE SubSeq(stack, 2, Len(stack))

\* Variant of EndStack: the ended span is removed wherever it is.
EndStack_Remove(stack, span) ==
    SelectSeq(stack, LAMBDA t : t # span)

\* endSpan, lines 100-106: the stack after the call.
EndStack(stack, span) ==
    IF Len(stack) = 0 THEN stack
    ELSE IF stack[Len(stack)] # span THEN stack
    ELSE SubSeq(stack, 1, Len(stack) - 1)

\* Variant of SpreadCopy: the internal array itself is returned.
SpreadCopy_LiveReference(stack) ==
    [alias |-> TRUE, edits |-> 0, items |-> stack]

\* getSpanStack, line 23: [...this.spanStack] is a new array with the same
\* elements.  alias tells whether the caller's array is the very array that
\* this.spanStack refers to; edits counts the caller's changes to it.
SpreadCopy(stack) ==
    [alias |-> FALSE, edits |-> 0, items |-> stack]

\* The caller holds no array before the first getSpanStack().
NoSnapshot == [alias |-> FALSE, edits |-> 0, items |-> << >>]

\* startSpan, line 60: push changes the array of this.spanStack in place, so
\* an array that is the same object shows the new element.
AfterPush(snap, stack) ==
    IF snap.alias THEN [snap EXCEPT !.items = stack] ELSE snap

\* endSpan, line 105: slice builds a new array and this.spanStack is set to
\* it, so an array the caller holds is no longer this.spanStack.
AfterSlice(snap, changed) ==
    IF changed THEN [snap EXCEPT !.alias = FALSE] ELSE snap

\* The changes a caller can make to an array of spans: append a span, remove
\* the last element, replace an element.
Mutations(items, spans) ==
    {Append(items, s) : s \in spans}
    \cup (IF Len(items) > 0 THEN {SubSeq(items, 1, Len(items) - 1)} ELSE {})
    \cup {[items EXCEPT ![i] = s] : i \in 1..Len(items), s \in spans}

\* The controller methods that only forward to the span (lines 65-67, 76-87
\* and 91-93).
ForwardedMethods ==
    {"context", "addEvent", "setStatus", "updateName", "isRecording"}

ControllerOp(kind, span, attributes, key, value) ==
    Op(kind, span, None, attributes, None, key, value)

----------------------------------------------------------------------------
Init ==
    /\ spanStack = << >>
    /\ commonAttributes = [k \in Keys |-> None]
    /\ nextSpan = 1
    /\ spanParent = [s \in SpanIds |-> NoSpan]
    /\ spanAttrs = [s \in SpanIds |-> [k \in AllKeys |-> None]]
    /\ ended = [s \in SpanIds |-> FALSE]
    /\ lastOp = Op("new", NoSpan, None, NoAttributes, None, None, None)
    /\ sdkLog = << >>
    /\ prevStack = << >>
    /\ prevCommon = [k \in Keys |-> None]
    /\ popped = {}
    /\ nested = TRUE
    /\ scenarioStep = 0
    /\ snapshot = NoSnapshot
    /\ wroteCommon = FALSE

\* Trace.startSpan(name, attributes, context)
StartSpan(name, attributes, context) ==
    /\ nextSpan <= MaxSpans
    /\ LET span == nextSpan
           parent == StackParent(spanStack)
           op == StartOp(span, name, attributes, context)
       IN  /\ spanParent' = [spanParent EXCEPT ![span] = parent]
           /\ spanAttrs' = [spanAttrs EXCEPT ![span] =
                               SetAttributes(InitialAttrs(attributes),
                                             commonAttributes)]
           /\ spanStack' = Append(spanStack, span)
           /\ nextSpan' = nextSpan + 1
           /\ lastOp' = op
           /\ sdkLog' = << Call("startSpan", span, None, None),
                           Call("setAttributes", span, None, None) >>
           /\ nested' = (nested /\ EndedSpans = {})
           /\ scenarioStep' = ScenarioAdvance(scenarioStep, op)
    /\ snapshot' = AfterPush(snapshot, spanStack')
    /\ Remember
    /\ UNCHANGED <<commonAttributes, ended, popped, wroteCommon>>

\* Trace.addCommonAttribute(key, value)
AddCommonAttribute(key, value) ==
    /\ LET targets == CommonTargets(spanStack)
           hit == {targets[i] : i \in 1..Len(targets)}
           op == AddCommonOp(key, value)
       IN  /\ spanAttrs' = [s \in SpanIds |->
                               IF s \in hit
                               THEN SetAttribute(spanAttrs[s], key, value)
                               ELSE spanAttrs[s]]
           /\ sdkLog' = [i \in 1..Len(targets) |->
                            Call("setAttribute", targets[i], key, value)]
           /\ lastOp' = op
           /\ scenarioStep' = ScenarioAdvance(scenarioStep, op)
    /\ commonAttributes' = StoreCommon(commonAttributes, key, value)
    /\ Remember
    /\ UNCHANGED <<spanStack, nextSpan, spanParent, ended, popped, nested,
                   snapshot, wroteCommon>>

\* SpanWrapper.end() of the controller of span, that is Trace.endSpan(span)
EndSpan(span) ==
    /\ span \in Created
    /\ LET tag == EndTag(spanStack, span)
           op == EndOp(span)
       IN  /\ spanAttrs' = [spanAttrs EXCEPT ![span] =
                               IF tag # None
                               THEN SetAttribute(@, StatusKey, tag)
                               ELSE @]
           /\ sdkLog' = EndCalls(span, tag)
           /\ lastOp' = op
           /\ scenarioStep' = ScenarioAdvance(scenarioStep, op)
    /\ spanStack' = EndStack(spanStack, span)
    /\ ended' = [s \in SpanIds |->
                     ended[s] \/ \E i \in 1..Len(sdkLog') :
                                    sdkLog'[i] = Call("end", s, None, None)]
    /\ popped' = (IF spanStack' # spanStack THEN popped \cup {span} ELSE popped)
    /\ Remember
    /\ nested' = (/\ nested
                  /\ ~ended[span]
                  /\ span = nextSpan - 1 - Cardinality(EndedSpans))
    /\ snapshot' = AfterSlice(snapshot, spanStack' # spanStack)
    /\ UNCHANGED <<commonAttributes, nextSpan, spanParent, wroteCommon>>

\* Trace.getSpanStack()
GetSpanStack ==
    /\ snapshot' = SpreadCopy(spanStack)
    /\ lastOp' = ControllerOp("getSpanStack", NoSpan, NoAttributes, None, None)
    /\ sdkLog' = << >>
    /\ scenarioStep' = -1
    /\ Remember
    /\ UNCHANGED <<spanStack, commonAttributes, nextSpan, spanParent, spanAttrs,
                   ended, popped, nested, wroteCommon>>

\* The caller changes the array that getSpanStack() returned.
MutateSnapshot(items) ==
    /\ snapshot.edits < MaxEdits
    /\ items \in Mutations(snapshot.items, Created)
    /\ snapshot' = [snapshot EXCEPT !.items = items, !.edits = @ + 1]
    /\ spanStack' = (IF snapshot.alias THEN items ELSE spanStack)
    /\ lastOp' = ControllerOp("mutateSnapshot", NoSpan, NoAttributes, None, None)
    /\ sdkLog' = << >>
    /\ scenarioStep' = -1
    /\ Remember
    /\ UNCHANGED <<commonAttributes, nextSpan, spanParent, spanAttrs, ended,
                   popped, nested, wroteCommon>>

\* SpanWrapper.setAttribute(key, value) of the controller of span
ControllerSetAttribute(span, key, value) ==
    /\ span \in Created
    /\ spanAttrs' = [spanAttrs EXCEPT ![span] = SetAttribute(@, key, value)]
    /\ wroteCommon' = (wroteCommon \/ commonAttributes[key] # None)
    /\ lastOp' = ControllerOp("setAttribute", span, NoAttributes, key, value)
    /\ sdkLog' = << Call("setAttribute", span, key, value) >>
    /\ scenarioStep' = -1
    /\ Remember
    /\ UNCHANGED <<spanStack, commonAttributes, nextSpan, spanParent, ended,
                   popped, nested, snapshot>>

\* SpanWrapper.setAttributes(attributes) of the controller of span
ControllerSetAttributes(span, attributes) ==
    /\ span \in Created
    /\ spanAttrs' = [spanAttrs EXCEPT ![span] = SetAttributes(@, attributes)]
    /\ wroteCommon' = (wroteCommon \/ \E k \in Keys :
                          attributes[k] # None /\ commonAttributes[k] # None)
    /\ lastOp' = ControllerOp("setAttributes", span, attributes, None, None)
    /\ sdkLog' = << Call("setAttributes", span, None, None) >>
    /\ scenarioStep' = -1
    /\ Remember
    /\ UNCHANGED <<spanStack, commonAttributes, nextSpan, spanParent, ended,
                   popped, nested, snapshot>>

\* SpanWrapper.context(), addEvent(), setStatus(), updateName() and
\* isRecording() of the controller of span: one call on the span, nothing
\* of Trace is read or written.
ControllerForward(span, method) ==
    /\ span \in Created
    /\ lastOp' = ControllerOp(method, span, NoAttributes, None, None)
    /\ sdkLog' = << Call(method, span, None, None) >>
    /\ scenarioStep' = -1
    /\ Remember
    /\ UNCHANGED <<spanStack, commonAttributes, nextSpan, spanParent, spanAttrs,
                   ended, popped, nested, snapshot, wroteCommon>>

Next ==
    \/ \E name \in SpanNames, attributes \in AttributeSets, context \in Contexts :
          StartSpan(name, attributes, context)
    \/ \E key \in Keys, value \in Values : AddCommonAttribute(key, value)
    \/ \E span \in SpanIds : EndSpan(span)

Spec == Init /\ [][Next]_vars

\* The operations of Trace together with the methods of the controllers.
\* Spans are started under one name and without a context, at most
\* MaxControllerSpans of them; addCommonAttribute stores one value and the
\* controllers write the other one.
ControllerNext ==
    \/ \E attributes \in AttributeSets :
          /\ nextSpan <= MaxControllerSpans
          /\ StartSpan("api_call", attributes, None)
    \/ \E key \in Keys : AddCommonAttribute(key, "42")
    \/ \E span \in SpanIds : EndSpan(span)
    \/ \E span \in SpanIds, key \in Keys :
          ControllerSetAttribute(span, key, "43")
    \/ \E span \in SpanIds :
          ControllerSetAttributes(span, [k \in Keys |-> "43"])
    \/ \E span \in SpanIds, method \in ForwardedMethods :
          ControllerForward(span, method)
    \/ GetSpanStack

ControllerSpec == Init /\ [][ControllerNext]_vars

\* The operations that read or write the stack, together with the changes a
\* caller makes to a returned array.  Spans are started under one name,
\* without initial attributes and without a context.
SnapshotNext ==
    \/ StartSpan("api_call", NoAttributes, None)
    \/ \E span \in SpanIds : EndSpan(span)
    \/ GetSpanStack
    \/ \E items \in Mutations(snapshot.items, Created) : MutateSnapshot(items)

SnapshotSpec == Init /\ [][SnapshotNext]_vars

----------------------------------------------------------------------------
TypeOK ==
    /\ spanStack \in Seq(SpanIds)
    /\ nextSpan \in 1..(MaxSpans + 1)
    /\ scenarioStep \in -1..Len(Scenario)

----------------------------------------------------------------------------
\* Vocabulary of the properties.

TopOf(stack) == IF Len(stack) > 0 THEN stack[Len(stack)] ELSE NoSpan

Elements(stack) == {stack[i] : i \in 1..Len(stack)}

\* A span is open when it has been started and its end has not been called.
OpenSpans == {s \in Created : ~ended[s]}

StatusTags == {ErrorEmptyStack, ErrorNotTop}

----------------------------------------------------------------------------
\* C1 (parenting): as long as no end call has been made, the 1st span was
\* created with no parent and the k-th span (k >= 2) with the (k-1)-th span
\* as its parent.
C1_Parenting ==
    (EndedSpans = {}) =>
        \A k \in Created :
            spanParent[k] = (IF k = 1 THEN NoSpan ELSE k - 1)

\* C1 witness: MaxSpans spans started and no end call made.
C1_Witness ==
    /\ nextSpan = MaxSpans + 1
    /\ EndedSpans = {}
    /\ lastOp.kind = "startSpan"

\* C2 (LIFO pop): in a sequence of N starts followed by ends in exact reverse
\* order of the starts, every end call shortens the stack by exactly one and
\* leaves on top the span started immediately before the ended one (nothing
\* when the first span is ended).
C2_LifoPop ==
    (lastOp.kind = "end" /\ nested) =>
        /\ Len(spanStack) = Len(prevStack) - 1
        /\ TopOf(spanStack) = lastOp.span - 1

\* C2 witness: a reverse-order end has left an earlier span on top.
C2_Witness ==
    /\ lastOp.kind = "end"
    /\ nested
    /\ Len(spanStack) >= 1
    /\ Len(prevStack) = MaxSpans

\* C3 (scenario), as the specification states it: start api_call; start
\* connect_db; addCommonAttribute(user_id, "42"); end connect_db; start
\* cache_lookup; end api_call; end cache_lookup.  The stack is [api_call]
\* after ending connect_db, cache_lookup has parent api_call and carries
\* user_id=42, the stack is [] after ending api_call, and the final end of
\* cache_lookup runs on an empty stack and tags it error_empty_stack while
\* still finalizing it.
C3_ScenarioAsStated ==
    /\ scenarioStep = 4 => spanStack = << 1 >>
    /\ scenarioStep = 5 =>
          /\ spanParent[3] = 1
          /\ spanAttrs[3]["user_id"] = "42"
    /\ scenarioStep = 6 => spanStack = << >>
    /\ scenarioStep = 7 =>
          /\ prevStack = << >>
          /\ spanAttrs[3][StatusKey] = ErrorEmptyStack
          /\ ended[3]

\* C3 (scenario), amended: the same calls in the same order.  The stack is
\* [api_call] after ending connect_db, which carries no error tag;
\* cache_lookup has parent api_call and carries user_id=42; ending api_call
\* while cache_lookup is on top leaves the stack [api_call, cache_lookup] and
\* tags api_call error_not_top while still finalizing it; the final end of
\* cache_lookup pops it without any tag, finalizes it and leaves [api_call].
C3_ScenarioAmended ==
    /\ scenarioStep = 1 => spanStack = << 1 >>
    /\ scenarioStep = 2 => spanStack = << 1, 2 >> /\ spanParent[2] = 1
    /\ scenarioStep = 3 =>
          /\ spanAttrs[1]["user_id"] = "42"
          /\ spanAttrs[2]["user_id"] = "42"
    /\ scenarioStep = 4 =>
          /\ spanStack = << 1 >>
          /\ spanAttrs[2][StatusKey] = None
          /\ ended[2]
    /\ scenarioStep = 5 =>
          /\ spanParent[3] = 1
          /\ spanAttrs[3]["user_id"] = "42"
    /\ scenarioStep = 6 =>
          /\ spanStack = << 1, 3 >>
          /\ spanAttrs[1][StatusKey] = ErrorNotTop
          /\ ended[1]
    /\ scenarioStep = 7 =>
          /\ prevStack = << 1, 3 >>
          /\ spanStack = << 1 >>
          /\ spanAttrs[3][StatusKey] = None
          /\ sdkLog = << Call("end", 3, None, None) >>
          /\ ended[3]

\* C3 witness: the whole scenario has run.
C3_Witness ==
    /\ scenarioStep = Len(Scenario)
    /\ lastOp = EndOp(3)

\* C4 (misuse is non-fatal): every end call returns normally, its last SDK
\* call being the end of the span.  An end call on a span whose end was
\* already called, or made while the stack is empty, leaves the span carrying
\* a span_status diagnostic.  An end call that finds the stack empty or
\* another span on top writes the tag and leaves the stack alone.  The stack
\* is changed by at most one end call per span (the first one that finds the
\* span on top), which removes exactly the top entry.
C4_MisuseStep ==
    (lastOp'.kind = "end") =>
        LET span == lastOp'.span
            invalid == Len(spanStack) = 0 \/ TopOf(spanStack) # span
        IN  /\ Len(sdkLog') >= 1
            /\ sdkLog'[Len(sdkLog')] = Call("end", span, None, None)
            /\ ended'[span]
            /\ (ended[span] \/ Len(spanStack) = 0) =>
                   spanAttrs'[span][StatusKey] \in StatusTags
            /\ invalid =>
                   /\ spanStack' = spanStack
                   /\ sdkLog'[1].call = "setAttribute"
                   /\ sdkLog'[1].span = span
                   /\ sdkLog'[1].key = StatusKey
                   /\ sdkLog'[1].value \in StatusTags
            /\ (spanStack' # spanStack) =>
                   /\ span \notin popped
                   /\ ~invalid
                   /\ spanStack' = SubSeq(spanStack, 1, Len(spanStack) - 1)

C5_OutOfOrderStep ==
    /\ ( /\ Len(spanStack) = 2
         /\ spanStack[1] # spanStack[2]
         /\ spanStack[1] \in OpenSpans
         /\ spanStack[2] \in OpenSpans
         /\ lastOp' = EndOp(spanStack[1]) ) =>
            /\ spanStack' = spanStack
            /\ spanAttrs'[spanStack[1]][StatusKey] = ErrorNotTop
    /\ ( /\ Len(spanStack) = 2
         /\ lastOp = EndOp(spanStack[1])
         /\ prevStack = spanStack
         /\ spanStack[2] \in OpenSpans
         /\ lastOp' = EndOp(spanStack[2]) ) =>
            /\ spanStack' = << spanStack[1] >>
            /\ spanAttrs'[spanStack[2]][StatusKey] = None
            /\ sdkLog' = << Call("end", spanStack[2], None, None) >>

C6_EndedSpanIsPopped ==
    (lastOp.kind = "end") => lastOp.span \notin Elements(spanStack)

\* C7 (common attribute retroactivity): after addCommonAttribute(K, V) every
\* span that was open at the call carries K=V and no span whose end had
\* already been called has received K; a span started while V is stored for
\* K carries K=V.
C7_Retroactivity ==
    /\ (lastOp.kind = "addCommonAttribute") =>
          /\ \A a \in OpenSpans : spanAttrs[a][lastOp.key] = lastOp.value
          /\ \A c \in EndedSpans :
                \A i \in 1..Len(sdkLog) : sdkLog[i].span # c
    /\ (lastOp.kind = "startSpan") =>
          \A k \in Keys :
             prevCommon[k] # None => spanAttrs[lastOp.span][k] = prevCommon[k]

\* C8 (overwrite of a common attribute): addCommonAttribute(K, V2) made when
\* V1 is stored for K stores V2 and sets K=V2 on every open span; every span
\* started afterwards, while V2 is stored, carries K=V2.
C8_Overwrite ==
    /\ ( /\ lastOp.kind = "addCommonAttribute"
         /\ prevCommon[lastOp.key] \notin {None, lastOp.value} ) =>
            /\ commonAttributes[lastOp.key] = lastOp.value
            /\ \A s \in OpenSpans : spanAttrs[s][lastOp.key] = lastOp.value
    /\ (lastOp.kind = "startSpan") =>
          \A k \in Keys :
             commonAttributes[k] # None =>
                spanAttrs[lastOp.span][k] = commonAttributes[k]

\* C8 witness: V1 was stored, V2 has just replaced it with two spans open.
C8_Witness ==
    /\ lastOp.kind = "addCommonAttribute"
    /\ prevCommon[lastOp.key] \notin {None, lastOp.value}
    /\ Cardinality(OpenSpans) >= 2

\* C9 (ended spans are not touched): addCommonAttribute never calls
\* set-attribute on a span whose end has already been called.
C9_OnlyOpenSpansTouched ==
    (lastOp.kind = "addCommonAttribute") =>
        \A i \in 1..Len(sdkLog) :
            sdkLog[i].call = "setAttribute" => ~ended[sdkLog[i].span]

\* C10 (ordering guarantee): every span is created as a child of a span that
\* was started earlier and whose end has not been called, or as a root when
\* the stack is empty; spans are created in call order.
C10_ParentIsOpen ==
    (lastOp.kind = "startSpan") =>
        LET span == lastOp.span
            parent == spanParent[span]
        IN  /\ span = nextSpan - 1
            /\ (prevStack = << >>) <=> (parent = NoSpan)
            /\ (parent # NoSpan) =>
                  /\ parent < span
                  /\ ~ended[parent]

\* C12 (empty-stack end): an end call made while the stack is empty tags the
\* span span_status=error_empty_stack, then calls the SDK end on it, and the
\* stack stays empty.
C12_EmptyStackEnd ==
    (lastOp.kind = "end" /\ prevStack = << >>) =>
        /\ sdkLog = << Call("setAttribute", lastOp.span, StatusKey,
                            ErrorEmptyStack),
                       Call("end", lastOp.span, None, None) >>
        /\ spanAttrs[lastOp.span][StatusKey] = ErrorEmptyStack
        /\ ended[lastOp.span]
        /\ spanStack = << >>

\* C12 witness: a span has been ended on an empty stack.
C12_Witness ==
    /\ lastOp.kind = "end"
    /\ prevStack = << >>
    /\ spanStack = << >>
    /\ nextSpan > 1

\* C13 (strict nesting): the entry at the bottom of the stack was created
\* with no parent, and every other entry was created with the entry right
\* below it as its parent.
C13_NestingChain ==
    \A i \in 1..Len(spanStack) :
        spanParent[spanStack[i]] =
            (IF i = 1 THEN NoSpan ELSE spanStack[i - 1])

\* C13 witness: a stack reached after an end call whose neighbours were not
\* created one right after the other, so that the chain is not the creation
\* order alone.
C13_Witness ==
    /\ Len(spanStack) >= 2
    /\ EndedSpans # {}
    /\ \E i \in 2..Len(spanStack) : spanStack[i] # spanStack[i - 1] + 1

\* C14 (the SDK end is always called): whatever branch an end call takes, it
\* calls the SDK end on that span exactly once, as its last SDK call.
C14_EndExactlyOnceLast ==
    (lastOp.kind = "end") =>
        /\ Len(sdkLog) >= 1
        /\ sdkLog[Len(sdkLog)] = Call("end", lastOp.span, None, None)
        /\ Cardinality({i \in 1..Len(sdkLog) : sdkLog[i].call = "end"}) = 1
        /\ ended[lastOp.span]

\* C14 witness: each of the three branches has been taken by some end call
\* (one span tagged error_empty_stack, one tagged error_not_top, one popped
\* without a tag).
C14_Witness ==
    /\ lastOp.kind = "end"
    /\ \E a, b, c \in Created :
          /\ spanAttrs[a][StatusKey] = ErrorEmptyStack
          /\ spanAttrs[b][StatusKey] = ErrorNotTop
          /\ spanAttrs[c][StatusKey] = None /\ c \in popped

\* The spans left in the stack by an end call made while they were not on
\* top.
Stuck == {s \in Elements(spanStack) : ended[s]}

\* C15 (a mis-ended span stays stuck), as stated: once end has been called on
\* a span that was not the top, no later operation removes it from the stack.
C15_StuckForever ==
    [][\A s \in Stuck : s \in Elements(spanStack')]_vars

\* C15, amended: a span ended while it was not the top stays in the stack
\* through every startSpan, every addCommonAttribute, every end call on
\* another span and every end call on itself made while it is not the top;
\* only an end call on itself made while it is the top removes it.
C15_StuckStep ==
    \A s \in Stuck :
        IF lastOp' = EndOp(s) /\ TopOf(spanStack) = s
        THEN spanStack' = SubSeq(spanStack, 1, Len(spanStack) - 1)
        ELSE s \in Elements(spanStack')

C15_StuckUntilEndedOnTop == [][C15_StuckStep]_vars

\* C15 witness: a stuck span has come through the end of the span above it
\* and a repeated end on itself under a newer span.
C15_Witness ==
    /\ lastOp.kind = "end"
    /\ lastOp.span \in Stuck
    /\ TopOf(prevStack) # lastOp.span
    /\ popped # {}
    /\ spanStack = prevStack

\* C16 (the common attributes only grow): no step removes a key from
\* commonAttributes; only addCommonAttribute changes the map, and it sets
\* the given key to the given value and leaves the other keys alone.
C16_CommonStep ==
    /\ \A k \in Keys : commonAttributes[k] # None => commonAttributes'[k] # None
    /\ (lastOp'.kind = "addCommonAttribute") =>
          /\ commonAttributes'[lastOp'.key] = lastOp'.value
          /\ \A k \in Keys \ {lastOp'.key} :
                commonAttributes'[k] = commonAttributes[k]
    /\ (commonAttributes' # commonAttributes) =>
          lastOp'.kind = "addCommonAttribute"

C18_CommonWinsOverInitial ==
    (lastOp.kind = "startSpan") =>
        \A k \in Keys :
            (lastOp.attributes[k] # None /\ prevCommon[k] # None) =>
                spanAttrs[lastOp.span][k] = prevCommon[k]

\* C18 witness: a span was started with an initial value that differs from
\* the stored one.
C18_Witness ==
    /\ lastOp.kind = "startSpan"
    /\ \E k \in Keys :
          /\ lastOp.attributes[k] # None
          /\ prevCommon[k] # None
          /\ lastOp.attributes[k] # prevCommon[k]

\* C19 (no open span is missed): every span that was started and whose end
\* has not been called is an element of the stack, hence among the spans
\* addCommonAttribute writes to.
C19_OpenSpansAreTracked ==
    /\ OpenSpans \subseteq Elements(spanStack)
    /\ (lastOp.kind = "addCommonAttribute") =>
          \A s \in OpenSpans :
             \E i \in 1..Len(sdkLog) :
                sdkLog[i] = Call("setAttribute", s, lastOp.key, lastOp.value)

\* C19 witness: addCommonAttribute ran with two spans open and one ended.
C19_Witness ==
    /\ lastOp.kind = "addCommonAttribute"
    /\ Cardinality(OpenSpans) >= 2
    /\ EndedSpans # {}

\* C11 (snapshot isolation): getSpanStack returns the elements of the stack,
\* and a change made to the returned array (append, remove, replace) leaves
\* the stack of the manager as it was, so every later operation reads the
\* untouched stack.
C11_SnapshotIsolation ==
    /\ (lastOp.kind = "getSpanStack") =>
          /\ snapshot.items = spanStack
          /\ spanStack = prevStack
    /\ (lastOp.kind = "mutateSnapshot") => spanStack = prevStack

\* C11 witness: the returned array was changed while two spans were tracked
\* and now differs from the stack.
C11_Witness ==
    /\ lastOp.kind = "mutateSnapshot"
    /\ Len(spanStack) >= 2
    /\ snapshot.items # spanStack
    /\ snapshot.edits >= 1

C20_StackCarriesCommon ==
    (~wroteCommon) =>
        \A s \in Elements(spanStack) :
            \A k \in Keys :
                commonAttributes[k] # None =>
                    spanAttrs[s][k] = commonAttributes[k]

\* C20 witness: with a value stored, a second span was started with another
\* initial value for the key while another span was tracked, and
\* no controller has written the key since it was stored.
C20_Witness ==
    /\ ~wroteCommon
    /\ lastOp.kind = "startSpan"
    /\ Len(spanStack) >= 2
    /\ \E k \in Keys :
          /\ prevCommon[k] # None
          /\ lastOp.attributes[k] \notin {None, prevCommon[k]}

====
